---- MODULE Spec2Model ----
(***************************************************************************)
(* Model of the task-progress-bar plugin (src/main.ts): the Task Scanner   *)
(* (countTasks), the Progress View (ProgressBarView) and the refresh       *)
(* scheduling of ProgressBarPlugin (debounce, updateProgressBar, the       *)
(* reading-view retry sequence and the Change Tracker).                    *)
(*                                                                         *)
(* Texts are sequences of one-character strings.                           *)
(***************************************************************************)
EXTENDS Integers, Sequences, FiniteSets, Bags, TLC

(***************************************************************************)
(* Task Scanner: /^\s*[-*+] \[([ xX#\-\/>])\](?!\()/gm                      *)
(***************************************************************************)

\* [-*+]
Bullets == {"-", "*", "+"}

\* [ xX#\-\/>]
MarkerChars == {" ", "x", "X", "#", "-", "/", ">"}

\* \s, restricted to the characters the model's texts are built from
WhiteSpace == {" ", "\t", "\n", "\r"}

\* the characters after which ^ matches under the m flag
LineTerminators == {"\n", "\r"}

\* ^ under the m flag: the start of the input or the position after a line terminator
IsLineStart(s, p) == p = 1 \/ (p - 1 <= Len(s) /\ s[p - 1] \in LineTerminators)

\* the greedy \s* from position p: the position after the longest whitespace run
RECURSIVE SkipSpaces(_, _)
SkipSpaces(s, p) ==
    IF p <= Len(s) /\ s[p] \in WhiteSpace THEN SkipSpaces(s, p + 1) ELSE p

\* the item pattern without its negative lookahead
ItemAtAnyFollower(s, q) ==
    /\ q + 4 <= Len(s)
    /\ s[q] \in Bullets
    /\ s[q + 1] = " "
    /\ s[q + 2] = "["
    /\ s[q + 3] \in MarkerChars
    /\ s[q + 4] = "]"

\* [-*+] \[([ xX#\-\/>])\](?!\() matched at position q
ItemAt(s, q) ==
    /\ q + 4 <= Len(s)
    /\ s[q] \in Bullets
    /\ s[q + 1] = " "
    /\ s[q + 2] = "["
    /\ s[q + 3] \in MarkerChars
    /\ s[q + 4] = "]"
    /\ ~(q + 5 <= Len(s) /\ s[q + 5] = "(")

\* the ends of a whitespace run from p at which the item matches: the greedy
\* \s* tries the longest run first and backtracks one character at a time
RunEnds(s, p) == {q \in p..SkipSpaces(s, p) : ItemAt(s, q)}

\* the regular expression tried at position p: 0 when it fails there,
\* otherwise the position of the bullet of the match
MatchAt(s, p) ==
    IF IsLineStart(s, p) /\ RunEnds(s, p) # {}
    THEN CHOOSE q \in RunEnds(s, p) : \A r \in RunEnds(s, p) : r <= q
    ELSE 0

\* content.matchAll(taskLineRegex): the capture group of every match, leftmost
\* first, each search resuming at the end of the previous match
RECURSIVE matchAll(_, _)
matchAll(s, p) ==
    IF p > Len(s) THEN <<>>
    ELSE LET q == MatchAt(s, p) IN
         IF q = 0 THEN matchAll(s, p + 1)
         ELSE <<s[q + 3]>> \o matchAll(s, q + 5)

\* a loop that takes only x and X for complete
RECURSIVE CountChecked(_)
CountChecked(matches) ==
    IF matches = <<>> THEN 0
    ELSE (IF Head(matches) \in {"x", "X"} THEN 1 ELSE 0) + CountChecked(Tail(matches))

\* the loop of countTasks over the matches
RECURSIVE CountCompleted(_)
CountCompleted(matches) ==
    IF matches = <<>> THEN 0
    ELSE (IF Head(matches) # " " THEN 1 ELSE 0) + CountCompleted(Tail(matches))

\* a scanner whose total is the number of the items still open
countTasksOpenTotal(content) ==
    LET matches == matchAll(content, 1) IN
    [total |-> Len(SelectSeq(matches, LAMBDA m : m = " ")),
     completed |-> Len(SelectSeq(matches, LAMBDA m : m # " "))]

countTasks(content) ==
    LET matches == matchAll(content, 1) IN
    [total |-> Len(matches), completed |-> CountCompleted(matches)]

(***************************************************************************)
(* Bounds of the model                                                     *)
(***************************************************************************)

\* the scanner's inputs: a seed text followed by at most MaxParts appended parts
MaxParts == 3

\* the Progress View's inputs: counts up to MaxCount
MaxCount == 14

\* the document holds at most MaxLines checklist lines
MaxLines == 1

\* a host event that arms timers is taken only while at most MaxTimers
\* timers are pending afterwards
MaxTimers == 3

\* the history of a burst of calls stops counting at BurstCap
BurstCap == 2

\* the history of reading-view attempts stops counting at AttemptCap
AttemptCap == 6

\* checkRecentTaskChanges taken alone is handed maps of at most MaxEntries entries
MaxEntries == 3

(***************************************************************************)
(* Program constants                                                       *)
(***************************************************************************)

maxRetryCount == 5

DebounceWait == 50

ForcedClickDelay == 100

ReadingClickDelay == 800

RetryBaseDelay == 500

RetryStepDelay == 200

ReleaseDelay == 500

TtlDelay == 10000

OnOpenDelay == 300

(***************************************************************************)
(* State                                                                   *)
(***************************************************************************)

VARIABLES
    \* the scanner and the view taken alone
    scanText,       \* the text handed to countTasks
    scanParts,      \* how many parts the text was built from
    scanResult,     \* what countTasks returned for scanText
    chkArgs,        \* the map and the arguments of the last call of
                    \* checkRecentTaskChanges taken alone, or NoCall
    chkResult,      \* what that call returned
    \* the Progress View
    showTaskCount,  \* settings.showTaskCount
    view,           \* the ProgressBarView: viewReady and its two elements
    rendered,       \* history: the counts the container shows (the arguments of
                    \* the last updateProgress that rendered), or NoCounts
    \* the host
    activeFile,     \* workspace.getActiveFile(): a path, or NoFile
    mode,           \* "editing" or "reading"
    doc,            \* the document as the user sees it (the bracket characters
                    \* of its checklist lines): the editor buffer
    disk,           \* the persisted document: what vault.read resolves to
    metaPending,    \* the metadata cache has a "changed" event to deliver
    \* ProgressBarPlugin
    updateInProgress,
    lastUpdateRecent,              \* Date.now() - lastUpdateTime < 300
    readingViewUpdateInProgress,
    fileOperationInProgress,
    isScrolling,
    scrollTimeout,                 \* the scroll timer is pending
    lastTaskRecent,                \* Date.now() - lastTaskUpdate < 2000
    recentlyChangedTasks,          \* the entries of the map: key and whether
                                   \* Date.now() - timestamp > 10000
    readingViewUpdateRetryCount,
    \* timers and asynchronous work
    dbTimers,       \* the pending timers of debounce: [id, force]
    dbTimeout,      \* the variable `timeout` of debounce: the last handle
    timers,         \* the other pending setTimeout callbacks, a bag
    updCycles,      \* updateProgressBar cycles awaiting their read
    rvCycles,       \* updateProgressBarForReadingView cycles past their checks
    \* history
    burst,          \* the calls of updateProgressBar since the debounce was idle,
                    \* the cycles its timers started, and whether a call
                    \* with force is among those the pending timer stands for
    attempts,       \* reading-view attempts since the last toggle, task
                    \* mutation or successful cycle
    changed         \* the document changed while a file and a ready view were open

scanVars == <<scanText, scanParts, scanResult, chkArgs, chkResult>>

viewVars == <<view, rendered>>

hostVars == <<activeFile, mode, doc, disk, metaPending>>

flagVars == <<updateInProgress, lastUpdateRecent, readingViewUpdateInProgress,
              fileOperationInProgress, isScrolling, scrollTimeout, lastTaskRecent,
              recentlyChangedTasks, readingViewUpdateRetryCount>>

dbVars == <<dbTimers, dbTimeout, burst>>

workVars == <<timers, updCycles, rvCycles>>

histVars == <<attempts, changed>>

vars == <<scanVars, showTaskCount, viewVars, hostVars, flagVars, dbVars, workVars, histVars>>

(***************************************************************************)
(* Texts, paths and documents                                              *)
(***************************************************************************)

\* no active file (getActiveFile() returns null)
NoFile == <<>>

\* the path of the one document of the model
FileA == <<"a">>

Files == {FileA}

\* the text of a checklist item as the reading view renders it
\* (li.textContent.trim()): the item's source text "t", or "u" for an item
\* whose rendered text differs from its source (inline formatting)
ItemTexts == {<<"t">>, <<"u">>}

\* the markdown source of a document whose checklist lines carry the
\* bracket characters ms: one line "- [m] t" each
RECURSIVE TextOf(_)
TextOf(ms) ==
    IF ms = <<>> THEN <<>>
    ELSE <<"-", " ", "[", Head(ms), "]", " ", "t", "\n">> \o TextOf(Tail(ms))

\* String.prototype.startsWith
startsWith(s, prefix) ==
    /\ Len(prefix) <= Len(s)
    /\ SubSeq(s, 1, Len(prefix)) = prefix

\* String.prototype.includes
includes(s, sub) ==
    \E i \in 0..(Len(s) - Len(sub)) : SubSeq(s, i + 1, i + Len(sub)) = sub

\* `${currentFile.path}:${taskContent}`
TaskKey(path, taskContent) == path \o <<":">> \o taskContent

\* a checkbox toggled: checked becomes unchecked and unchecked checked
Toggled(m) == IF m = " " THEN "x" ELSE " "

\* the documents one edit away: a line toggled, a line appended, the last removed
EditsOf(ms) ==
    {[ms EXCEPT ![i] = Toggled(ms[i])] : i \in 1..Len(ms)}
    \cup (IF Len(ms) < MaxLines THEN {Append(ms, " ")} ELSE {})
    \cup (IF Len(ms) > 0 THEN {SubSeq(ms, 1, Len(ms) - 1)} ELSE {})

RemoveAt(seq, i) == SubSeq(seq, 1, i - 1) \o SubSeq(seq, i + 1, Len(seq))

Min(a, b) == IF a < b THEN a ELSE b

(***************************************************************************)
(* Progress View                                                           *)
(***************************************************************************)

\* an element created under progressContainerEl: its class and the
\* numbers its text or style carries
El(cls, num, den) == [cls |-> cls, num |-> num, den |-> den]

\* the text "Khong co tep nao mo" of showNoFileMessage
NoFileName == <<"no file">>

\* the container shows no counts
NoCounts == [total |-> -1, completed |-> -1]

\* the view before onOpen: no leaf, viewReady = false, both elements null
ViewClosed == [state |-> "none", fileName |-> <<>>, container |-> <<>>]

\* showNoFileMessage
showNoFileMessage(v) ==
    [v EXCEPT !.fileName = NoFileName,
              !.container = <<El("no-file-info", 0, 0)>>]

\* Math.floor in the place of Math.round
FloorPercent(completedTasks, totalTasks) == (100 * completedTasks) \div totalTasks

\* Math.round((completedTasks / totalTasks) * 100): the nearest integer, a
\* half rounding up. Exact for the totals of the model (a quotient with a
\* fractional part of one half arises only for totals 2, 4, 8, 16, whose
\* floating-point quotients are exact).
RoundPercent(completedTasks, totalTasks) ==
    (200 * completedTasks + totalTasks) \div (2 * totalTasks)

\* updateProgress without its branch for totalTasks === 0
ProgressElementsAlwaysBar(totalTasks, completedTasks, withCount) ==
    LET percent == IF totalTasks = 0 THEN 0
                   ELSE (200 * completedTasks + totalTasks) \div (2 * totalTasks)
    IN <<El("bar-container", percent, 100), El("progress-label", percent, 100)>>
       \o (IF withCount
           THEN <<El("task-count-info", completedTasks, totalTasks)>>
           ELSE <<>>)

\* the children updateProgress creates under progressContainerEl
ProgressElements(totalTasks, completedTasks, withCount) ==
    IF totalTasks = 0
    THEN <<El("no-tasks-info", 0, 0)>>
    ELSE LET percent == RoundPercent(completedTasks, totalTasks) IN
         <<El("bar-container", percent, 100), El("progress-label", percent, 100)>>
         \o (IF withCount
             THEN <<El("task-count-info", completedTasks, totalTasks)>>
             ELSE <<>>)

\* ProgressBarView.updateProgress(file, totalTasks, completedTasks)
updateProgress(v, file, totalTasks, completedTasks, withCount) ==
    IF v.state # "ready" THEN v
    ELSE [v EXCEPT !.fileName = file,
                   !.container = ProgressElements(totalTasks, completedTasks, withCount)]

\* what the container shows after updateProgress was called on view v
RenderedAfter(v, counts, before) == IF v.state = "ready" THEN counts ELSE before

(***************************************************************************)
(* debounce and the Change Tracker                                         *)
(***************************************************************************)

\* a clearTimeout that cancels nothing
clearTimeoutNothing(pending, handle) == pending

\* clearTimeout(handle) on a set of pending timers
clearTimeout(pending, handle) == {t \in pending : t.id # handle}

\* the handles setTimeout may return next: those of no pending timer
FreshIds(pending) ==
    {i \in 1..(Cardinality(pending) + 1) : \A t \in pending : t.id # i}

\* executedFunction of debounce: clearTimeout(timeout); timeout = setTimeout(later, wait)
debounce(pending, handle, force) ==
    LET id == CHOOSE i \in FreshIds(pending) : \A j \in FreshIds(pending) : i <= j
    IN [timers |-> clearTimeout(pending, handle) \cup {[id |-> id, force |-> force]},
        timeout |-> id]

\* recentlyChangedTasks.set(taskKey, Date.now())
TrackerSet(tracker, key) ==
    {e \in tracker : e.key # key} \cup {[key |-> key, expired |-> FALSE]}

\* a delete that removes nothing
TrackerDeleteNothing(tracker, key) == tracker

\* recentlyChangedTasks.delete(taskKey)
TrackerDelete(tracker, key) == {e \in tracker : e.key # key}

\* checkRecentTaskChanges was not called yet
NoCall == [tracker |-> {}, filePath |-> <<>>, fileContent |-> <<"?">>]

\* a check that does not look at the age of the entries
checkRecentTaskChangesAnyAge(tracker, filePath, fileContent) ==
    [stale |->
         \E e \in tracker :
             /\ startsWith(e.key, filePath \o <<":">>)
             /\ ~includes(fileContent, SubSeq(e.key, Len(filePath) + 2, Len(e.key))),
     tracker |-> {e \in tracker : ~e.expired}]

\* checkRecentTaskChanges(filePath, fileContent): what it returns, and the
\* map after its lazy purge of the expired entries
checkRecentTaskChanges(tracker, filePath, fileContent) ==
    IF tracker = {}
    THEN [stale |-> FALSE, tracker |-> tracker]
    ELSE [stale |->
              \E e \in tracker :
                  /\ ~e.expired
                  /\ startsWith(e.key, filePath \o <<":">>)
                  /\ ~includes(fileContent, SubSeq(e.key, Len(filePath) + 2, Len(e.key))),
          tracker |-> {e \in tracker : ~e.expired}]

\* a pending setTimeout callback
Timer(kind, delay, key) == [kind |-> kind, delay |-> delay, key |-> key]

One(x) == SetToBag({x})

\* the delays of the two branches exchanged
ClickDelaySwapped(isReadingView) ==
    IF isReadingView THEN ForcedClickDelay ELSE ReadingClickDelay

\* the delay of the timer handleCheckboxClick arms: 800 ms in the reading
\* view, 100 ms outside it
ClickDelay(isReadingView) ==
    IF isReadingView THEN ReadingClickDelay ELSE ForcedClickDelay

\* the delay before the retry that follows a failed attempt
RetryDelay(count) == RetryBaseDelay + count * RetryStepDelay


(***************************************************************************)
(* Initial state: the plugin constructed, nothing open                     *)
(***************************************************************************)

ScanIdle ==
    /\ scanText = <<>>
    /\ scanParts = 0
    /\ scanResult = countTasks(<<>>)
    /\ chkArgs = NoCall
    /\ chkResult = FALSE

\* the documents a vault may hold when the plugin loads
Docs == UNION {[1..n -> {" ", "x"}] : n \in 0..MaxLines}

\* the host with no file active and the document ms in the vault
HostIdle(ms) ==
    /\ activeFile = NoFile
    /\ mode = "editing"
    /\ doc = ms
    /\ disk = ms
    /\ metaPending = FALSE

\* the field initialisers of ProgressBarPlugin; no timer, no cycle
FieldsIdle ==
    /\ updateInProgress = FALSE
    /\ lastUpdateRecent = FALSE
    /\ readingViewUpdateInProgress = FALSE
    /\ fileOperationInProgress = FALSE
    /\ isScrolling = FALSE
    /\ scrollTimeout = FALSE
    /\ lastTaskRecent = FALSE
    /\ recentlyChangedTasks = {}
    /\ readingViewUpdateRetryCount = 0
    /\ dbTimers = {}
    /\ dbTimeout = 0
    /\ timers = EmptyBag
    /\ updCycles = <<>>
    /\ rvCycles = <<>>
    /\ burst = [calls |-> 0, cycles |-> 0, forced |-> FALSE]
    /\ attempts = 0
    /\ changed = FALSE

PluginIdle == HostIdle(<<>>) /\ FieldsIdle

Init ==
    /\ ScanIdle
    /\ showTaskCount = TRUE
    /\ view = ViewClosed
    /\ rendered = NoCounts
    /\ \E ms \in Docs : HostIdle(ms)
    /\ FieldsIdle

(***************************************************************************)
(* updateProgressBar = debounce(async (force = false) => {...}, 50)        *)
(***************************************************************************)

\* a call of updateProgressBar(force): the debounce re-arms its timer
CallUpdate(force) ==
    LET d == debounce(dbTimers, dbTimeout, force) IN
    /\ dbTimers' = d.timers
    /\ dbTimeout' = d.timeout
    /\ burst' = IF dbTimers = {}
                THEN [calls |-> 1, cycles |-> 0, forced |-> force]
                ELSE [burst EXCEPT !.calls = Min(@ + 1, BurstCap),
                                   !.forced = @ \/ force]

\* the early return of updateInProgress alone
UpdateDroppedInFlightOnly(force) == updateInProgress

\* the two early returns of the debounced function
UpdateDropped(force) == (~force /\ lastUpdateRecent) \/ updateInProgress

\* mdView?.editor of getFileContent: the editor's buffer is at hand
EditorAtHand == mode = "editing"

\* the debounce timer t fires: later() runs the debounced function
DebounceFire(t) ==
    /\ t \in dbTimers
    /\ dbTimers' = clearTimeout(dbTimers \ {t}, dbTimeout)
    /\ UNCHANGED dbTimeout
    /\ burst' = [burst EXCEPT !.cycles = IF UpdateDropped(t.force) THEN @
                                         ELSE Min(@ + 1, BurstCap),
                              !.forced = FALSE]
    /\ IF UpdateDropped(t.force)
       THEN UNCHANGED <<lastUpdateRecent, updateInProgress, updCycles, viewVars>>
       ELSE /\ lastUpdateRecent' = TRUE
            /\ IF activeFile = NoFile \/ view.state = "none"
               THEN UNCHANGED <<updateInProgress, updCycles, viewVars>>
               ELSE IF EditorAtHand
               THEN LET c == countTasks(TextOf(doc)) IN
                    /\ view' = updateProgress(view, activeFile, c.total, c.completed,
                                              showTaskCount)
                    /\ rendered' = RenderedAfter(view, c, rendered)
                    /\ UNCHANGED <<updateInProgress, updCycles>>
               ELSE /\ updateInProgress' = TRUE
                    /\ updCycles' = Append(updCycles,
                           [file |-> activeFile, stage |-> "read", live |-> TRUE])
                    /\ UNCHANGED viewVars
    /\ UNCHANGED <<scanVars, showTaskCount, hostVars, readingViewUpdateInProgress,
                   fileOperationInProgress, isScrolling, scrollTimeout, lastTaskRecent,
                   recentlyChangedTasks, readingViewUpdateRetryCount, timers, rvCycles,
                   histVars>>

\* the rest of a cycle once its content is there: count, render, finally
UpdFinish(i, content) ==
    LET c == countTasks(content) IN
       /\ view' = IF updCycles[i].live
                  THEN updateProgress(view, updCycles[i].file, c.total, c.completed,
                                      showTaskCount)
                  ELSE view
       /\ rendered' = IF updCycles[i].live THEN RenderedAfter(view, c, rendered)
                      ELSE rendered
       /\ updCycles' = RemoveAt(updCycles, i)
       /\ updateInProgress' = FALSE

\* vault.read of getFileContent settles
UpdReadDone(i, ok) ==
    /\ i \in 1..Len(updCycles)
    /\ updCycles[i].stage = "read"
    /\ IF ok
       THEN UpdFinish(i, TextOf(disk))
       ELSE /\ updCycles' = [updCycles EXCEPT ![i].stage = "cached"]
            /\ UNCHANGED <<viewVars, updateInProgress>>
    /\ UNCHANGED <<scanVars, showTaskCount, hostVars, lastUpdateRecent,
                   readingViewUpdateInProgress, fileOperationInProgress, isScrolling,
                   scrollTimeout, lastTaskRecent, recentlyChangedTasks,
                   readingViewUpdateRetryCount, dbVars, timers, rvCycles, histVars>>

\* vault.cachedRead of getFileContent settles; its failure reaches the catch
\* of the debounced function
UpdCachedDone(i, ok) ==
    /\ i \in 1..Len(updCycles)
    /\ updCycles[i].stage = "cached"
    /\ IF ok
       THEN UpdFinish(i, TextOf(disk))
       ELSE /\ updCycles' = RemoveAt(updCycles, i)
            /\ updateInProgress' = FALSE
            /\ UNCHANGED viewVars
    /\ UNCHANGED <<scanVars, showTaskCount, hostVars, lastUpdateRecent,
                   readingViewUpdateInProgress, fileOperationInProgress, isScrolling,
                   scrollTimeout, lastTaskRecent, recentlyChangedTasks,
                   readingViewUpdateRetryCount, dbVars, timers, rvCycles, histVars>>

(***************************************************************************)
(* The reading-view retry sequence                                         *)
(***************************************************************************)

\* the checks without the one of readingViewUpdateInProgress
AttemptRefusedUnguarded == isScrolling \/ activeFile = NoFile

\* the checks with the lock that the end of a cycle clears at once in the
\* place of readingViewUpdateInProgress
AttemptRefusedByFileLock ==
    isScrolling \/ fileOperationInProgress \/ activeFile = NoFile

\* the checks of updateProgressBarForReadingView before it takes its flags
AttemptRefused == isScrolling \/ readingViewUpdateInProgress \/ activeFile = NoFile

\* the callback of .then in scheduleReadingViewUpdate: the timers it arms
RetryTimers(success, count) ==
    IF ~success /\ count < maxRetryCount
    THEN One(Timer("sched", RetryDelay(count), <<>>))
    ELSE EmptyBag

\* a limit that is never reached
RetriesExhaustedNever == FALSE

\* the first test of scheduleReadingViewUpdate: too many attempts were made
RetriesExhausted == readingViewUpdateRetryCount >= maxRetryCount

\* a timer t fires scheduleReadingViewUpdate
TimerSchedFire(t) ==
    /\ BagIn(t, timers)
    /\ t.kind = "sched"
    /\ IF RetriesExhausted
       THEN /\ readingViewUpdateRetryCount' = 0
            /\ timers' = timers (-) One(t)
            /\ UNCHANGED <<readingViewUpdateInProgress, fileOperationInProgress,
                           rvCycles, attempts>>
       ELSE /\ readingViewUpdateRetryCount' = readingViewUpdateRetryCount + 1
            /\ attempts' = Min(attempts + 1, AttemptCap)
            /\ IF AttemptRefused
               THEN /\ timers' = (timers (-) One(t))
                                 (+) RetryTimers(FALSE, readingViewUpdateRetryCount')
                    /\ UNCHANGED <<readingViewUpdateInProgress,
                                   fileOperationInProgress, rvCycles>>
               ELSE /\ readingViewUpdateInProgress' = TRUE
                    /\ fileOperationInProgress' = TRUE
                    /\ rvCycles' = Append(rvCycles, [file |-> activeFile, stage |-> "wait"])
                    /\ timers' = timers (-) One(t)
    /\ UNCHANGED <<scanVars, showTaskCount, viewVars, hostVars, updateInProgress,
                   lastUpdateRecent, isScrolling, scrollTimeout, lastTaskRecent,
                   recentlyChangedTasks, dbVars, updCycles, changed>>

\* the 200 ms wait of a reading-view cycle is over: vault.read is issued
RVWaitDone(i) ==
    /\ i \in 1..Len(rvCycles)
    /\ rvCycles[i].stage = "wait"
    /\ rvCycles' = [rvCycles EXCEPT ![i].stage = "read"]
    /\ UNCHANGED <<scanVars, showTaskCount, viewVars, hostVars, flagVars, dbVars,
                   timers, updCycles, histVars>>

\* whether the cycle whose read settles (ok: resolved, otherwise rejected) returns true
RVSuccess(i, ok) ==
    /\ ok
    /\ ~checkRecentTaskChanges(recentlyChangedTasks, rvCycles[i].file, TextOf(disk)).stale

\* a cycle that renders whatever checkRecentTaskChanges returned
RVRenderAlways(v, success, file, c) ==
    updateProgress(v, file, c.total, c.completed, showTaskCount)

\* the view after a reading-view cycle whose read resolved with content
RVRender(v, success, file, c) ==
    IF success THEN updateProgress(v, file, c.total, c.completed, showTaskCount) ELSE v

\* vault.read of a reading-view cycle settles: verify, render, finally, .then
RVReadDone(i, ok) ==
    /\ i \in 1..Len(rvCycles)
    /\ rvCycles[i].stage = "read"
    /\ LET c == countTasks(TextOf(disk))
           success == RVSuccess(i, ok)
       IN /\ recentlyChangedTasks' =
                 IF ok THEN checkRecentTaskChanges(recentlyChangedTasks,
                                rvCycles[i].file, TextOf(disk)).tracker
                 ELSE recentlyChangedTasks
          /\ view' = RVRender(view, success, rvCycles[i].file, c)
          /\ rendered' = IF success THEN RenderedAfter(view, c, rendered) ELSE rendered
          /\ fileOperationInProgress' = FALSE
          /\ timers' = (timers (+) One(Timer("release", ReleaseDelay, <<>>)))
                       (+) RetryTimers(success, readingViewUpdateRetryCount)
          /\ readingViewUpdateRetryCount' =
                 IF success THEN 0 ELSE readingViewUpdateRetryCount
          /\ attempts' = IF success THEN 0 ELSE attempts
    /\ rvCycles' = RemoveAt(rvCycles, i)
    /\ UNCHANGED <<scanVars, showTaskCount, hostVars, updateInProgress, lastUpdateRecent,
                   readingViewUpdateInProgress, isScrolling, scrollTimeout,
                   lastTaskRecent, dbVars, updCycles, changed>>

\* a release timer that fires and leaves the flag set
TimerReleaseFireKeepsFlag(t) ==
    /\ BagIn(t, timers)
    /\ t.kind = "release"
    /\ timers' = timers (-) One(t)
    /\ UNCHANGED <<scanVars, showTaskCount, viewVars, hostVars, flagVars, dbVars,
                   updCycles, rvCycles, histVars>>

\* the timer of the finally block fires: readingViewUpdateInProgress = false
TimerReleaseFire(t) ==
    /\ BagIn(t, timers)
    /\ t.kind = "release"
    /\ timers' = timers (-) One(t)
    /\ readingViewUpdateInProgress' = FALSE
    /\ UNCHANGED <<scanVars, showTaskCount, viewVars, hostVars, updateInProgress,
                   lastUpdateRecent, fileOperationInProgress, isScrolling, scrollTimeout,
                   lastTaskRecent, recentlyChangedTasks, readingViewUpdateRetryCount,
                   dbVars, updCycles, rvCycles, histVars>>

\* the 10 s timer of a recorded change fires: recentlyChangedTasks.delete(taskKey)
TimerTtlFire(t) ==
    /\ BagIn(t, timers)
    /\ t.kind = "ttl"
    /\ timers' = timers (-) One(t)
    /\ recentlyChangedTasks' = TrackerDelete(recentlyChangedTasks, t.key)
    /\ UNCHANGED <<scanVars, showTaskCount, viewVars, hostVars, updateInProgress,
                   lastUpdateRecent, readingViewUpdateInProgress, fileOperationInProgress,
                   isScrolling, scrollTimeout, lastTaskRecent,
                   readingViewUpdateRetryCount, dbVars, updCycles, rvCycles, histVars>>

\* the 100 ms timer of a click outside reading view fires: updateProgressBar(true)
TimerForcedFire(t) ==
    /\ BagIn(t, timers)
    /\ t.kind = "forced"
    /\ timers' = timers (-) One(t)
    /\ CallUpdate(TRUE)
    /\ UNCHANGED <<scanVars, showTaskCount, viewVars, hostVars, flagVars, updCycles,
                   rvCycles, histVars>>

\* the 300 ms timer of onOpen fires
TimerOnOpenFire(t) ==
    /\ BagIn(t, timers)
    /\ t.kind = "onOpen"
    /\ timers' = timers (-) One(t)
    /\ IF activeFile # NoFile THEN CallUpdate(FALSE) ELSE UNCHANGED dbVars
    /\ UNCHANGED <<scanVars, showTaskCount, viewVars, hostVars, flagVars, updCycles,
                   rvCycles, histVars>>

(***************************************************************************)
(* Host events                                                             *)
(***************************************************************************)

\* a host event that arms n timers is taken only within the bound
Room(n) == BagCardinality(timers) + n <= MaxTimers

\* "file-open": another file, or none, becomes the active one
FileOpen(f) ==
    /\ f \in Files \cup {NoFile}
    /\ f # activeFile
    /\ activeFile' = f
    /\ CallUpdate(FALSE)
    /\ changed' = FALSE
    /\ UNCHANGED <<scanVars, showTaskCount, viewVars, mode, doc, disk, metaPending,
                   flagVars, workVars, attempts>>

\* "active-leaf-change"
ActiveLeafChange ==
    /\ CallUpdate(FALSE)
    /\ UNCHANGED <<scanVars, showTaskCount, viewVars, hostVars, flagVars, workVars,
                   histVars>>

\* "editor-change": the user edited the document to d
EditorChange(d) ==
    /\ activeFile # NoFile
    /\ mode = "editing"
    /\ d \in EditsOf(doc)
    /\ doc' = d
    /\ CallUpdate(FALSE)
    /\ changed' = (changed \/ view.state = "ready")
    /\ UNCHANGED <<scanVars, showTaskCount, viewVars, activeFile, mode, disk,
                   metaPending, flagVars, workVars, attempts>>

\* the host writes the document to storage; its metadata cache will report it
HostPersist ==
    /\ disk # doc
    /\ disk' = doc
    /\ metaPending' = TRUE
    /\ UNCHANGED <<scanVars, showTaskCount, viewVars, activeFile, mode, doc, flagVars,
                   dbVars, workVars, histVars>>

\* metadataCache "changed" for the document
MetadataChanged ==
    /\ metaPending
    /\ metaPending' = FALSE
    /\ IF activeFile # NoFile THEN CallUpdate(FALSE) ELSE UNCHANGED dbVars
    /\ UNCHANGED <<scanVars, showTaskCount, viewVars, activeFile, mode, doc, disk,
                   flagVars, workVars, histVars>>

\* "layout-change": the markdown view switches between editing and reading
SwitchMode ==
    /\ mode' = IF mode = "editing" THEN "reading" ELSE "editing"
    /\ UNCHANGED <<scanVars, showTaskCount, viewVars, activeFile, doc, disk,
                   metaPending, flagVars, dbVars, workVars, histVars>>

\* handleScroll
Scroll ==
    /\ isScrolling' = TRUE
    /\ scrollTimeout' = TRUE
    /\ UNCHANGED <<scanVars, showTaskCount, viewVars, hostVars, updateInProgress,
                   lastUpdateRecent, readingViewUpdateInProgress,
                   fileOperationInProgress, lastTaskRecent, recentlyChangedTasks,
                   readingViewUpdateRetryCount, dbVars, workVars, histVars>>

\* the 150 ms timer of handleScroll fires
ScrollTimeoutFire ==
    /\ scrollTimeout
    /\ isScrolling' = FALSE
    /\ scrollTimeout' = FALSE
    /\ UNCHANGED <<scanVars, showTaskCount, viewVars, hostVars, updateInProgress,
                   lastUpdateRecent, readingViewUpdateInProgress,
                   fileOperationInProgress, lastTaskRecent, recentlyChangedTasks,
                   readingViewUpdateRetryCount, dbVars, workVars, histVars>>

\* what handleCheckboxClick and handleKeyDown do for a task item of the
\* reading view: record the change, reset the retry count, arm the 800 ms timer
ReadingTaskEvent(i, taskContent, toggles) ==
    /\ activeFile # NoFile
    /\ mode = "reading"
    /\ i \in 1..Len(doc)
    /\ taskContent \in ItemTexts
    /\ Room(2)
    /\ doc' = IF toggles THEN [doc EXCEPT ![i] = Toggled(doc[i])] ELSE doc
    /\ lastTaskRecent' = TRUE
    /\ recentlyChangedTasks' =
           TrackerSet(recentlyChangedTasks, TaskKey(activeFile, taskContent))
    /\ readingViewUpdateRetryCount' = 0
    /\ timers' = (timers (+) One(Timer("ttl", TtlDelay, TaskKey(activeFile, taskContent))))
                 (+) One(Timer("sched", ClickDelay(TRUE), <<>>))
    /\ attempts' = 0
    /\ changed' = (changed \/ (toggles /\ view.state = "ready"))
    /\ UNCHANGED <<scanVars, showTaskCount, viewVars, activeFile, mode, disk,
                   metaPending, updateInProgress, lastUpdateRecent,
                   readingViewUpdateInProgress, fileOperationInProgress, isScrolling,
                   scrollTimeout, dbVars, updCycles, rvCycles>>

\* handleCheckboxClick in the reading view: on the checkbox (it toggles) or
\* on the text of the item (it does not)
CheckboxClickReading(i, taskContent, toggles) == ReadingTaskEvent(i, taskContent, toggles)

\* handleKeyDown: Space on a task of the reading view
KeyDownReading(i, taskContent) == ReadingTaskEvent(i, taskContent, TRUE)

\* handleCheckboxClick outside the reading view: no list item is found, the
\* 100 ms timer of updateProgressBar(true) is armed
CheckboxClickEditing ==
    /\ activeFile # NoFile
    /\ mode = "editing"
    /\ Len(doc) > 0
    /\ Room(1)
    /\ lastTaskRecent' = TRUE
    /\ timers' = timers (+) One(Timer("forced", ClickDelay(FALSE), <<>>))
    /\ UNCHANGED <<scanVars, showTaskCount, viewVars, hostVars, updateInProgress,
                   lastUpdateRecent, readingViewUpdateInProgress,
                   fileOperationInProgress, isScrolling, scrollTimeout,
                   recentlyChangedTasks, readingViewUpdateRetryCount, dbVars, updCycles,
                   rvCycles, histVars>>

\* the MutationObserver callback with a task-related mutation
MutationCallback(isReadingView) ==
    /\ activeFile # NoFile
    /\ ~(isScrolling \/ fileOperationInProgress)
    /\ IF isReadingView
       THEN /\ mode = "reading"
            /\ lastTaskRecent
            /\ Room(1)
            /\ readingViewUpdateRetryCount' = 0
            /\ timers' = timers (+) One(Timer("sched", ReadingClickDelay, <<>>))
            /\ attempts' = 0
            /\ UNCHANGED dbVars
       ELSE /\ CallUpdate(FALSE)
            /\ UNCHANGED <<readingViewUpdateRetryCount, timers, attempts>>
    /\ UNCHANGED <<scanVars, showTaskCount, viewVars, hostVars, updateInProgress,
                   lastUpdateRecent, readingViewUpdateInProgress,
                   fileOperationInProgress, isScrolling, scrollTimeout, lastTaskRecent,
                   recentlyChangedTasks, updCycles, rvCycles, changed>>

\* activateView with no leaf yet: the leaf is created, onOpen runs, then
\* updateProgressBar()
ActivateView ==
    /\ view.state = "none"
    /\ Room(1)
    /\ view' = showNoFileMessage([view EXCEPT !.state = "ready"])
    /\ rendered' = NoCounts
    /\ timers' = timers (+) One(Timer("onOpen", OnOpenDelay, <<>>))
    /\ CallUpdate(FALSE)
    /\ changed' = FALSE
    /\ UNCHANGED <<scanVars, showTaskCount, hostVars, flagVars, updCycles, rvCycles,
                   attempts>>

\* the leaf is closed: onClose; the cycles in flight keep the dead view
ViewClose ==
    /\ view.state = "ready"
    /\ view' = ViewClosed
    /\ rendered' = NoCounts
    /\ updCycles' = [i \in 1..Len(updCycles) |-> [updCycles[i] EXCEPT !.live = FALSE]]
    /\ changed' = FALSE
    /\ UNCHANGED <<scanVars, showTaskCount, hostVars, flagVars, dbVars, timers, rvCycles,
                   attempts>>

(***************************************************************************)
(* The passing of time, as far as the code reads the clock                 *)
(***************************************************************************)

\* 300 ms have passed since lastUpdateTime
ThrottleElapse ==
    /\ lastUpdateRecent
    /\ lastUpdateRecent' = FALSE
    /\ UNCHANGED <<scanVars, showTaskCount, viewVars, hostVars, updateInProgress,
                   readingViewUpdateInProgress, fileOperationInProgress, isScrolling,
                   scrollTimeout, lastTaskRecent, recentlyChangedTasks,
                   readingViewUpdateRetryCount, dbVars, workVars, histVars>>

\* 2000 ms have passed since lastTaskUpdate
TaskRecencyElapse ==
    /\ lastTaskRecent
    /\ lastTaskRecent' = FALSE
    /\ UNCHANGED <<scanVars, showTaskCount, viewVars, hostVars, updateInProgress,
                   lastUpdateRecent, readingViewUpdateInProgress,
                   fileOperationInProgress, isScrolling, scrollTimeout,
                   recentlyChangedTasks, readingViewUpdateRetryCount, dbVars, workVars,
                   histVars>>

\* more than 10000 ms have passed since the timestamp of entry e
EntryExpires(e) ==
    /\ e \in recentlyChangedTasks
    /\ ~e.expired
    /\ recentlyChangedTasks' =
           (recentlyChangedTasks \ {e}) \cup {[e EXCEPT !.expired = TRUE]}
    /\ UNCHANGED <<scanVars, showTaskCount, viewVars, hostVars, updateInProgress,
                   lastUpdateRecent, readingViewUpdateInProgress,
                   fileOperationInProgress, isScrolling, scrollTimeout, lastTaskRecent,
                   readingViewUpdateRetryCount, dbVars, workVars, histVars>>

(***************************************************************************)
(* The plugin                                                              *)
(***************************************************************************)

Next ==
    \/ \E f \in Files \cup {NoFile} : FileOpen(f)
    \/ ActiveLeafChange
    \/ \E d \in EditsOf(doc) : EditorChange(d)
    \/ HostPersist
    \/ MetadataChanged
    \/ SwitchMode
    \/ Scroll
    \/ ScrollTimeoutFire
    \/ \E i \in 1..Len(doc) : \E c \in ItemTexts : \E b \in BOOLEAN :
           CheckboxClickReading(i, c, b)
    \/ \E i \in 1..Len(doc) : \E c \in ItemTexts : KeyDownReading(i, c)
    \/ CheckboxClickEditing
    \/ \E r \in BOOLEAN : MutationCallback(r)
    \/ ActivateView
    \/ ViewClose
    \/ \E t \in dbTimers : DebounceFire(t)
    \/ \E i \in 1..Len(updCycles) : \E ok \in BOOLEAN : UpdReadDone(i, ok)
    \/ \E i \in 1..Len(updCycles) : \E ok \in BOOLEAN : UpdCachedDone(i, ok)
    \/ \E t \in BagToSet(timers) : TimerSchedFire(t)
    \/ \E i \in 1..Len(rvCycles) : RVWaitDone(i)
    \/ \E i \in 1..Len(rvCycles) : \E ok \in BOOLEAN : RVReadDone(i, ok)
    \/ \E t \in BagToSet(timers) : TimerReleaseFire(t)
    \/ \E t \in BagToSet(timers) : TimerTtlFire(t)
    \/ \E t \in BagToSet(timers) : TimerForcedFire(t)
    \/ \E t \in BagToSet(timers) : TimerOnOpenFire(t)
    \/ ThrottleElapse
    \/ TaskRecencyElapse
    \/ \E e \in recentlyChangedTasks : EntryExpires(e)

Spec == Init /\ [][Next]_vars

(***************************************************************************)
(* Sessions of the plugin that are explored exhaustively. Each takes the   *)
(* actions of Next that bear on one path of the scheduler.                 *)
(***************************************************************************)

\* the document, holding one unchecked item, open in the reading view with
\* the Progress View open and nothing pending; the view was opened before
\* the file, and the call of updateProgressBar for the opening of the file
\* was dropped, so the view still shows that no file is open
ReadingSession ==
    /\ activeFile = FileA
    /\ mode = "reading"
    /\ doc = <<" ">>
    /\ disk = <<" ">>
    /\ metaPending = FALSE
    /\ updateInProgress = FALSE
    /\ lastUpdateRecent = FALSE
    /\ readingViewUpdateInProgress = FALSE
    /\ fileOperationInProgress = FALSE
    /\ isScrolling = FALSE
    /\ scrollTimeout = FALSE
    /\ lastTaskRecent = FALSE
    /\ recentlyChangedTasks = {}
    /\ readingViewUpdateRetryCount = 0
    /\ dbTimers = {}
    /\ dbTimeout = 1
    /\ timers = EmptyBag
    /\ updCycles = <<>>
    /\ rvCycles = <<>>
    /\ burst = [calls |-> 1, cycles |-> 0, forced |-> FALSE]
    /\ attempts = 0
    /\ changed = FALSE

InitReading ==
    /\ ScanIdle
    /\ showTaskCount = TRUE
    /\ view = showNoFileMessage([ViewClosed EXCEPT !.state = "ready"])
    /\ rendered = NoCounts
    /\ ReadingSession

\* the updateProgressBar path: every host event but the task events of the
\* reading view, starting from the plugin with nothing open
NextUpdate ==
    \/ \E f \in Files \cup {NoFile} : FileOpen(f)
    \/ ActiveLeafChange
    \/ \E d \in EditsOf(doc) : EditorChange(d)
    \/ HostPersist
    \/ MetadataChanged
    \/ SwitchMode
    \/ CheckboxClickEditing
    \/ MutationCallback(FALSE)
    \/ ActivateView
    \/ ViewClose
    \/ \E t \in dbTimers : DebounceFire(t)
    \/ \E i \in 1..Len(updCycles) : \E ok \in BOOLEAN : UpdReadDone(i, ok)
    \/ \E i \in 1..Len(updCycles) : \E ok \in BOOLEAN : UpdCachedDone(i, ok)
    \/ \E t \in BagToSet(timers) : TimerForcedFire(t)
    \/ \E t \in BagToSet(timers) : TimerOnOpenFire(t)
    \/ ThrottleElapse

SpecUpdate == Init /\ [][NextUpdate]_vars

\* the reading-view retry path: the file opened and closed, the toggles of
\* the reading view, the retry sequence, the Change Tracker and scrolling
NextReading ==
    \/ \E f \in Files \cup {NoFile} : FileOpen(f)
    \/ Scroll
    \/ ScrollTimeoutFire
    \/ \E i \in 1..Len(doc) : \E c \in ItemTexts : CheckboxClickReading(i, c, TRUE)
    \/ \E i \in 1..Len(doc) : \E c \in ItemTexts : KeyDownReading(i, c)
    \/ MutationCallback(TRUE)
    \/ \E t \in BagToSet(timers) : TimerSchedFire(t)
    \/ \E i \in 1..Len(rvCycles) : RVWaitDone(i)
    \/ \E i \in 1..Len(rvCycles) : \E ok \in BOOLEAN : RVReadDone(i, ok)
    \/ \E t \in BagToSet(timers) : TimerReleaseFire(t)
    \/ \E t \in BagToSet(timers) : TimerTtlFire(t)
    \/ TaskRecencyElapse
    \/ \E e \in recentlyChangedTasks : EntryExpires(e)

SpecReading == InitReading /\ [][NextReading]_vars

\* one toggle in the reading view whose recorded text is never found in the
\* fetched content (the rendered text of the item differs from its source
\* and the entry of the Change Tracker is not yet 10 s old): the click, the
\* task mutations that follow it and the retry sequence
NextStale ==
    \/ \E i \in 1..Len(doc) : CheckboxClickReading(i, <<"u">>, TRUE)
    \/ MutationCallback(TRUE)
    \/ \E t \in BagToSet(timers) : TimerSchedFire(t)
    \/ \E i \in 1..Len(rvCycles) : RVWaitDone(i)
    \/ \E i \in 1..Len(rvCycles) : \E ok \in BOOLEAN : RVReadDone(i, ok)
    \/ \E t \in BagToSet(timers) : TimerReleaseFire(t)
    \/ TaskRecencyElapse

SpecStale == InitReading /\ [][NextStale]_vars

\* clicks on a checkbox in the reading view and outside it, with the mode
\* switched between them, and the refreshes their timers start
NextClick ==
    \/ SwitchMode
    \/ \E i \in 1..Len(doc) : CheckboxClickReading(i, <<"t">>, TRUE)
    \/ CheckboxClickEditing
    \/ \E t \in BagToSet(timers) : TimerForcedFire(t)
    \/ \E t \in dbTimers : DebounceFire(t)
    \/ \E i \in 1..Len(updCycles) : UpdReadDone(i, TRUE)
    \/ \E t \in BagToSet(timers) : TimerSchedFire(t)
    \/ \E i \in 1..Len(rvCycles) : RVWaitDone(i)
    \/ \E i \in 1..Len(rvCycles) : RVReadDone(i, TRUE)
    \/ \E t \in BagToSet(timers) : TimerReleaseFire(t)
    \/ \E t \in BagToSet(timers) : TimerTtlFire(t)
    \/ ThrottleElapse

SpecClick == InitReading /\ [][NextClick]_vars

\* the flags of the two paths: the calls of updateProgressBar with and
\* without a file and a view, a toggle whose text the file never holds, its
\* retry sequence, and reads that resolve or reject
NextFlags ==
    \/ \E f \in Files \cup {NoFile} : FileOpen(f)
    \/ ActiveLeafChange
    \/ ViewClose
    \/ ActivateView
    \/ \E t \in BagToSet(timers) : TimerOnOpenFire(t)
    \/ \E t \in dbTimers : DebounceFire(t)
    \/ \E i \in 1..Len(updCycles) : \E ok \in BOOLEAN : UpdReadDone(i, ok)
    \/ \E i \in 1..Len(updCycles) : \E ok \in BOOLEAN : UpdCachedDone(i, ok)
    \/ \E i \in 1..Len(doc) : CheckboxClickReading(i, <<"u">>, TRUE)
    \/ \E t \in BagToSet(timers) : TimerSchedFire(t)
    \/ \E i \in 1..Len(rvCycles) : RVWaitDone(i)
    \/ \E i \in 1..Len(rvCycles) : \E ok \in BOOLEAN : RVReadDone(i, ok)
    \/ \E t \in BagToSet(timers) : TimerReleaseFire(t)
    \/ ThrottleElapse

SpecFlags == InitReading /\ [][NextFlags]_vars

\* a promise of the vault settles, the 200 ms wait ends and the 500 ms timer
\* of the finally block fires: the event loop runs what is due
SpecFlagsFair ==
    /\ SpecFlags
    /\ WF_vars(\E i \in 1..Len(updCycles) : \E ok \in BOOLEAN : UpdReadDone(i, ok))
    /\ WF_vars(\E i \in 1..Len(updCycles) : \E ok \in BOOLEAN : UpdCachedDone(i, ok))
    /\ WF_vars(\E i \in 1..Len(rvCycles) : RVWaitDone(i))
    /\ WF_vars(\E i \in 1..Len(rvCycles) : \E ok \in BOOLEAN : RVReadDone(i, ok))
    /\ WF_vars(\E t \in BagToSet(timers) : TimerReleaseFire(t))

\* both paths in the reading view: clicks on a task and their retry
\* sequence, and the leaf changes that call updateProgressBar
NextBoth ==
    \/ ActiveLeafChange
    \/ \E i \in 1..Len(doc) : CheckboxClickReading(i, <<"t">>, FALSE)
    \/ \E t \in dbTimers : DebounceFire(t)
    \/ \E i \in 1..Len(updCycles) : \E ok \in BOOLEAN : UpdReadDone(i, ok)
    \/ \E i \in 1..Len(updCycles) : \E ok \in BOOLEAN : UpdCachedDone(i, ok)
    \/ \E t \in BagToSet(timers) : TimerSchedFire(t)
    \/ \E i \in 1..Len(rvCycles) : RVWaitDone(i)
    \/ \E i \in 1..Len(rvCycles) : \E ok \in BOOLEAN : RVReadDone(i, ok)
    \/ \E t \in BagToSet(timers) : TimerReleaseFire(t)
    \/ \E t \in BagToSet(timers) : TimerTtlFire(t)
    \/ ThrottleElapse

SpecBoth == InitReading /\ [][NextBoth]_vars

(***************************************************************************)
(* The Change Tracker alone: checkRecentTaskChanges applied to maps,       *)
(* paths and contents                                                      *)
(***************************************************************************)

\* the paths of two files, the one a prefix of the other
ChkPaths == {<<"a">>, <<"a", "b">>}

\* the item texts recorded
ChkTexts == {<<"t">>, <<"u">>, <<"t", "u">>}

\* the contents handed to the check
ChkContents == {<<>>, <<"t">>, <<"u", "t">>, <<"-", " ", "[", "x", "]", " ", "t", "u">>}

ChkKeys == {TaskKey(path, text) : path \in ChkPaths, text \in ChkTexts}

\* the maps of at most MaxEntries entries, each within or past its 10 s
ChkMaps ==
    {m \in SUBSET [key : ChkKeys, expired : BOOLEAN] :
        /\ Cardinality(m) <= MaxEntries
        /\ \A e1, e2 \in m : e1.key = e2.key => e1 = e2}

InitTracker ==
    /\ ScanIdle
    /\ showTaskCount = TRUE
    /\ view = ViewClosed
    /\ rendered = NoCounts
    /\ HostIdle(<<>>)
    /\ recentlyChangedTasks \in ChkMaps
    /\ updateInProgress = FALSE
    /\ lastUpdateRecent = FALSE
    /\ readingViewUpdateInProgress = FALSE
    /\ fileOperationInProgress = FALSE
    /\ isScrolling = FALSE
    /\ scrollTimeout = FALSE
    /\ lastTaskRecent = FALSE
    /\ readingViewUpdateRetryCount = 0
    /\ dbTimers = {}
    /\ dbTimeout = 0
    /\ timers = EmptyBag
    /\ updCycles = <<>>
    /\ rvCycles = <<>>
    /\ burst = [calls |-> 0, cycles |-> 0, forced |-> FALSE]
    /\ attempts = 0
    /\ changed = FALSE

\* checkRecentTaskChanges(filePath, fileContent) on the map as it is
CheckCall(filePath, fileContent) ==
    LET r == checkRecentTaskChanges(recentlyChangedTasks, filePath, fileContent) IN
    /\ chkArgs' = [tracker |-> recentlyChangedTasks, filePath |-> filePath,
                   fileContent |-> fileContent]
    /\ chkResult' = r.stale
    /\ recentlyChangedTasks' = r.tracker
    /\ UNCHANGED <<scanText, scanParts, scanResult, showTaskCount, viewVars, hostVars,
                   updateInProgress, lastUpdateRecent, readingViewUpdateInProgress,
                   fileOperationInProgress, isScrolling, scrollTimeout, lastTaskRecent,
                   readingViewUpdateRetryCount, dbVars, workVars, histVars>>

NextTracker ==
    \/ \E path \in ChkPaths : \E content \in ChkContents : CheckCall(path, content)
    \/ \E e \in recentlyChangedTasks : EntryExpires(e)

SpecTracker == InitTracker /\ [][NextTracker]_vars

(***************************************************************************)
(* The scanner alone: countTasks applied to texts built part by part       *)
(***************************************************************************)

Str5(a, b, c, d, e) == <<a, b, c, d, e>>

\* "- [ ] a\n- [x] b\n- [/] c\n"
SeedThree ==
    <<"-", " ", "[", " ", "]", " ", "a", "\n">> \o
    <<"-", " ", "[", "x", "]", " ", "b", "\n">> \o
    <<"-", " ", "[", "/", "]", " ", "c", "\n">>

\* "- [ ] a (not a checkbox) [x](link)\n", shortened to "- [ ] a (n) [x](l)\n"
SeedLink ==
    <<"-", " ", "[", " ", "]", " ", "a", " ", "(", "n", ")", " ">> \o
    <<"[", "x", "]", "(", "l", ")", "\n">>

SeedTexts == {<<>>, SeedThree, SeedLink}

\* the parts a text grows by: single characters, and list items "b [m]"
\* varying the bullet or the bracket character ("y" is no marker)
PartChars == {<<" ">>, <<"\n">>, <<"(">>, <<"a">>}

PartItems ==
    {Str5("-", " ", "[", m, "]") : m \in MarkerChars \cup {"y"}}
    \cup {Str5(b, " ", "[", "x", "]") : b \in Bullets}

Parts == PartChars \cup PartItems

InitScan ==
    /\ scanText \in SeedTexts
    /\ scanParts = 0
    /\ scanResult = countTasks(scanText)
    /\ chkArgs = NoCall
    /\ chkResult = FALSE
    /\ showTaskCount = TRUE
    /\ view = ViewClosed
    /\ rendered = NoCounts
    /\ PluginIdle

ScanAppend(part) ==
    /\ scanParts < MaxParts
    /\ scanText' = scanText \o part
    /\ scanParts' = scanParts + 1
    /\ scanResult' = countTasks(scanText')
    /\ UNCHANGED <<chkArgs, chkResult, showTaskCount, viewVars, hostVars, flagVars, dbVars, workVars,
                   histVars>>

NextScan == \E part \in Parts : ScanAppend(part)

SpecScan == InitScan /\ [][NextScan]_vars

(***************************************************************************)
(* The Progress View alone: updateProgress applied to arbitrary counts     *)
(***************************************************************************)

InitView ==
    /\ ScanIdle
    /\ showTaskCount \in BOOLEAN
    /\ view = ViewClosed
    /\ rendered = NoCounts
    /\ PluginIdle

\* view.updateProgress(file, total, completed) called from a cycle
ViewUpdate(total, completed) ==
    /\ view' = updateProgress(view, FileA, total, completed, showTaskCount)
    /\ rendered' = RenderedAfter(view, [total |-> total, completed |-> completed],
                                 rendered)
    /\ UNCHANGED <<scanVars, showTaskCount, hostVars, flagVars, dbVars, workVars,
                   histVars>>

NextView ==
    \/ ActivateView
    \/ ViewClose
    \/ \E total \in 0..MaxCount : \E completed \in 0..total : ViewUpdate(total, completed)

SpecView == InitView /\ [][NextView]_vars

(***************************************************************************)
(* Properties of the Task Scanner (SpecScan)                               *)
(***************************************************************************)

\* the five characters of a checklist item: bullet, space, "[", marker, "]"
TaskPrefixes == {<<b, " ", "[", m, "]">> : b \in Bullets, m \in MarkerChars}

\* position q is preceded on its line by blanks only
Indented(s, q) ==
    \E p \in 1..q :
        /\ p = 1 \/ s[p - 1] = "\n"
        /\ \A k \in p..(q - 1) : s[k] \in {" ", "\t"}

\* the checklist lines of a text, read line by line: the positions of the
\* bullets of the lines that start with optional blanks, a bullet, one space
\* and a bracketed marker not followed by "("
ChecklistLines(s) ==
    {q \in 1..(Len(s) - 4) :
        /\ SubSeq(s, q, q + 4) \in TaskPrefixes
        /\ Indented(s, q)
        /\ ~(q + 5 <= Len(s) /\ s[q + 5] = "(")}

\* the lines that have the shape of a checklist line but for the "(" that
\* follows their bracket
LinkLines(s) ==
    {q \in 1..(Len(s) - 5) :
        /\ SubSeq(s, q, q + 4) \in TaskPrefixes
        /\ Indented(s, q)
        /\ s[q + 5] = "("}

\* C1: for every text, countTasks returns counts with 0 <= completed <= total
CompletedWithinTotal ==
    /\ 0 <= scanResult.completed
    /\ scanResult.completed <= scanResult.total

\* a grown text with open and completed items
CompletedWithinTotalSeen ==
    /\ scanParts > 0
    /\ scanResult.total >= 2
    /\ 0 < scanResult.completed
    /\ scanResult.completed < scanResult.total

\* C2: the total of countTasks is the number of the text's lines that start
\* with optional whitespace, a bullet, exactly one space and a bracketed
\* marker of the set, the bracket not followed by "("
TotalIsChecklistLines ==
    scanResult.total = Cardinality(ChecklistLines(scanText))

\* a grown text with a counted line and a line left out for its "("
TotalIsChecklistLinesSeen ==
    /\ scanParts > 0
    /\ scanResult.total >= 1
    /\ LinkLines(scanText) # {}

\* C3: the completed count of countTasks is the number of the checklist
\* lines whose marker is not a space
CompletedIsMarkedLines ==
    scanResult.completed =
        Cardinality({q \in ChecklistLines(scanText) : scanText[q + 3] # " "})

\* a grown text with an open line, a line marked x and a line with one of
\* the other markers
CompletedIsMarkedLinesSeen ==
    /\ scanParts > 0
    /\ \E q \in ChecklistLines(scanText) : scanText[q + 3] = " "
    /\ \E q \in ChecklistLines(scanText) : scanText[q + 3] = "x"
    /\ \E q \in ChecklistLines(scanText) : scanText[q + 3] \in {"#", "-", "/", ">"}
    /\ scanResult.completed >= 3

(***************************************************************************)
(* Properties of the Progress View (SpecView)                              *)
(***************************************************************************)

\* C4: whenever updateProgress rendered counts with total > 0, the bar and
\* the label carry the integer of 0..100 nearest to completed/total*100, a
\* half rounding up
PercentIsRounded ==
    rendered.total > 0 =>
        /\ Len(view.container) >= 2
        /\ view.container[1].cls = "bar-container"
        /\ view.container[2].cls = "progress-label"
        /\ view.container[1].num = view.container[2].num
        /\ LET p == view.container[2].num
               t == rendered.total
               c == rendered.completed
           IN /\ p \in 0..100
              /\ 2 * p * t - t <= 200 * c
              /\ 200 * c < 2 * p * t + t

\* one of three rendered as 33%
PercentIsRoundedSeen ==
    /\ rendered = [total |-> 3, completed |-> 1]
    /\ Len(view.container) >= 2
    /\ view.container[2] = El("progress-label", 33, 100)

(***************************************************************************)
(* Properties of updateProgressBar (SpecUpdate)                            *)
(***************************************************************************)

\* C5: whenever a cycle rendered counts with total = 0, the view shows the
\* "no tasks" element and neither a bar nor a percent label
NoTasksShown ==
    (rendered # NoCounts /\ rendered.total = 0) =>
        /\ view.container = <<El("no-tasks-info", 0, 0)>>
        /\ \A i \in 1..Len(view.container) :
               view.container[i].cls \notin {"bar-container", "progress-label"}

\* a cycle rendered the empty document of the open file
NoTasksShownSeen ==
    /\ activeFile # NoFile
    /\ view.state = "ready"
    /\ view.fileName = activeFile
    /\ rendered = [total |-> 0, completed |-> 0]

\* C6 as stated: two or more calls of updateProgressBar, each before the
\* timer of the one before fired, result in exactly one cycle
BurstRunsOneCycle ==
    (dbTimers = {} /\ burst.calls >= 2) => burst.cycles = 1

\* C6 amended: a call cancels the timer of the call before, so at most one
\* timer is pending and the calls of a burst start at most one cycle
BurstRunsAtMostOneCycle ==
    /\ Cardinality(dbTimers) <= 1
    /\ burst.cycles <= 1

\* a burst of two calls is over and one cycle was started
BurstRunsAtMostOneCycleSeen ==
    /\ dbTimers = {}
    /\ burst.calls >= 2
    /\ burst.cycles = 1

\* no timer, read or host notification is pending
Quiescent ==
    /\ dbTimers = {}
    /\ timers = EmptyBag
    /\ updCycles = <<>>
    /\ rvCycles = <<>>
    /\ ~metaPending
    /\ ~scrollTimeout
    /\ disk = doc

\* C10: once the document changed with a file and a ready view open and
\* nothing is pending any more, the view shows the counts of the document
ChangeIsShown ==
    (Quiescent /\ changed /\ activeFile # NoFile /\ view.state = "ready") =>
        rendered = countTasks(TextOf(doc))

(***************************************************************************)
(* Properties of both paths together (SpecBoth)                            *)
(***************************************************************************)

\* C7 as stated: at most one cycle is in flight, the cycles of
\* updateProgressBar and of updateProgressBarForReadingView counted together
OneCycleInFlight == Len(updCycles) + Len(rvCycles) <= 1

\* C7 amended: at most one cycle of updateProgressBar and at most one cycle
\* of updateProgressBarForReadingView are in flight
OneCycleInFlightPerPath ==
    /\ Len(updCycles) <= 1
    /\ Len(rvCycles) <= 1
    /\ updCycles # <<>> => updateInProgress
    /\ rvCycles # <<>> => readingViewUpdateInProgress

\* a cycle of each path is in flight, the trigger of a further one pending
OneCycleInFlightPerPathSeen ==
    /\ Len(updCycles) = 1
    /\ Len(rvCycles) = 1
    /\ \E t \in BagToSet(timers) : t.kind = "sched"

(***************************************************************************)
(* Properties of the reading-view retry sequence (SpecStale, SpecReading)  *)
(***************************************************************************)

\* C8: after a toggle the retry sequence makes at most maxRetryCount attempts
RetriesBounded == attempts <= maxRetryCount

\* C9: an attempt that is refused, an attempt whose cycle does not succeed
\* and the give-up leave the Progress View as it was
FailedAttemptKeepsView ==
    [][((\E t \in BagToSet(timers) : TimerSchedFire(t))
        \/ (\E i \in 1..Len(rvCycles) : \E ok \in BOOLEAN :
                RVReadDone(i, ok) /\ ~RVSuccess(i, ok)))
       => view' = view]_vars

\* the sequence gave up after maxRetryCount attempts without a success, a
\* ready view open
FailedAttemptKeepsViewSeen ==
    /\ view.state = "ready"
    /\ attempts >= maxRetryCount
    /\ readingViewUpdateRetryCount = 0
    /\ rvCycles = <<>>
    /\ \A t \in BagToSet(timers) : t.kind # "sched"

(***************************************************************************)
(* Properties of the Change Tracker (SpecTracker, SpecReading)             *)
(***************************************************************************)

\* text occurs in content
IsSubstring(text, content) ==
    \E i \in 1..(Len(content) + 1) : \E j \in (i - 1)..Len(content) :
        SubSeq(content, i, j) = text

\* the entry e of a map is one of the file filePath whose item text does not
\* occur in fileContent
Unreflected(e, filePath, fileContent) ==
    \E text \in ChkTexts :
        /\ e.key = filePath \o <<":">> \o text
        /\ ~IsSubstring(text, fileContent)

\* C11: checkRecentTaskChanges returns true exactly when some entry within
\* its 10 s whose key starts with filePath + ":" has an item text that does
\* not occur in the content; it returns false for the empty map
StaleIffUnreflected ==
    chkArgs # NoCall =>
        /\ chkResult =
               (\E e \in chkArgs.tracker :
                    ~e.expired /\ Unreflected(e, chkArgs.filePath, chkArgs.fileContent))
        /\ chkArgs.tracker = {} => ~chkResult

\* a call that returned false although the map held an expired entry of the
\* file and a fresh entry of the other file, both with a text not in the content
StaleIffUnreflectedSeen ==
    /\ chkArgs # NoCall
    /\ ~chkResult
    /\ \E e \in chkArgs.tracker :
           e.expired /\ Unreflected(e, chkArgs.filePath, chkArgs.fileContent)
    /\ \E e \in chkArgs.tracker : \E other \in ChkPaths \ {chkArgs.filePath} :
           ~e.expired /\ Unreflected(e, other, chkArgs.fileContent)

\* the text recorded under the key of entry e for the file of path filePath
RecordedText(e, filePath) == SubSeq(e.key, Len(filePath) + 2, Len(e.key))

\* the timer of a recorded change leaves no entry of its key
TtlTimerPurges ==
    \A t \in BagToSet(timers) :
        TimerTtlFire(t) => \A e \in recentlyChangedTasks' : e.key # t.key

\* a check leaves no expired entry, and reports stale only for a key that is
\* in the map, within its 10 s, with a text the content does not contain
CheckPurges ==
    \A i \in 1..Len(rvCycles) :
        RVReadDone(i, TRUE) =>
            /\ \A e \in recentlyChangedTasks' : ~e.expired
            /\ ~RVSuccess(i, TRUE) =>
                   \E f \in recentlyChangedTasks :
                       /\ ~f.expired
                       /\ ~IsSubstring(RecordedText(f, rvCycles[i].file), TextOf(disk))

\* C12: every recorded change is purged once its 10 s have elapsed: an entry
\* is in the map only while a timer of its key is pending, the timer removes
\* the key, and a check removes the expired entries it meets; a change
\* whose key is gone or whose text the content contains is never reported
PurgedAfterTtl ==
    /\ [](\A e \in recentlyChangedTasks :
              \E t \in BagToSet(timers) : t.kind = "ttl" /\ t.key = e.key)
    /\ [][TtlTimerPurges /\ CheckPurges]_vars

\* a change was recorded and attempts were made; its timer fired and
\* nothing is tracked any more
PurgedAfterTtlSeen ==
    /\ activeFile # NoFile
    /\ changed
    /\ attempts >= 1
    /\ ~lastTaskRecent
    /\ recentlyChangedTasks = {}
    /\ \A t \in BagToSet(timers) : t.kind # "ttl"

(***************************************************************************)
(* C13: a failed read and the display                                      *)
(***************************************************************************)

\* C13: a read failure never stops a cycle from rendering: when vault.read
\* and then vault.cachedRead fail, the cycle goes on with the empty string
\* and the view shows what the empty string counts to (no tasks)
FailedReadStillRenders ==
    [][\A i \in 1..Len(updCycles) :
          (UpdCachedDone(i, FALSE) /\ updCycles[i].live /\ view.state = "ready") =>
              LET c == countTasks(<<>>) IN
              view' = updateProgress(view, updCycles[i].file, c.total, c.completed,
                                     showTaskCount)]_vars

(***************************************************************************)
(* C14: a cycle with no document open                                      *)
(***************************************************************************)

\* C14: a cycle that runs (its call is not dropped) while no document is
\* open leaves the view showing the no-file state
NoFileCycleShowsNoFile ==
    [][\A t \in dbTimers :
          (/\ DebounceFire(t)
           /\ (t.force \/ ~lastUpdateRecent)
           /\ ~updateInProgress
           /\ activeFile = NoFile
           /\ view.state = "ready") => view' = showNoFileMessage(view)]_vars

(***************************************************************************)
(* C15: a change recorded again                                            *)
(***************************************************************************)

\* C15: recording a change again restarts the lifetime of its entry: when
\* the 10 s timer of an earlier record of the key fires while the timer of a
\* later record is still pending, the entry, whose 10 s have not passed, stays
\* in the tracker
RecordRestartsLifetime ==
    [][\A t \in BagToSet(timers) : \A e \in recentlyChangedTasks :
          (/\ TimerTtlFire(t)
           /\ CopiesIn(t, timers) >= 2
           /\ e.key = t.key
           /\ ~e.expired) => e \in recentlyChangedTasks']_vars

(***************************************************************************)
(* C16: a change the content confirms                                      *)
(***************************************************************************)

\* C16: after a reading-view cycle that succeeds for a file, no entry of
\* that file whose text the fetched content contains remains tracked
ConfirmedChangeDeleted ==
    [][\A i \in 1..Len(rvCycles) : \A e \in recentlyChangedTasks :
          (/\ RVReadDone(i, TRUE)
           /\ RVSuccess(i, TRUE)
           /\ startsWith(e.key, rvCycles[i].file \o <<":">>)
           /\ IsSubstring(RecordedText(e, rvCycles[i].file), TextOf(disk)))
              => e \notin recentlyChangedTasks']_vars

(***************************************************************************)
(* C17: the pending refresh timers                                         *)
(***************************************************************************)

\* the pending timers that are to start a refresh: those of setTimeout in the
\* click, key and mutation handlers (100 ms, 800 ms) and in the retry
RefreshTimers ==
    LET ks == {t \in BagToSet(timers) : t.kind \in {"sched", "forced"}}
    IN BagCardinality([t \in ks |-> CopiesIn(t, timers)])

\* C17: at most one refresh timer is pending at any time
OneRefreshTimer == RefreshTimers <= 1

(***************************************************************************)
(* C18: the throttle of updateProgressBar                                  *)
(***************************************************************************)

\* C18: a call that fires without force less than 300 ms after the start of
\* the last cycle, and any call that fires while a cycle is in flight, leaves
\* lastUpdateTime, updateInProgress and the view as they are; a call without
\* force that starts a cycle fires 300 ms or more after the last start
ThrottledCallChangesNothing ==
    [][\A t \in dbTimers :
          DebounceFire(t) =>
              /\ ((~t.force /\ lastUpdateRecent) \/ updateInProgress) =>
                     UNCHANGED <<lastUpdateRecent, updateInProgress, view, rendered,
                                 updCycles>>
              /\ (~t.force /\ (updCycles' # updCycles \/ view' # view)) =>
                     ~lastUpdateRecent]_vars

\* a burst ended with its call dropped while the view is open
ThrottledCallChangesNothingSeen ==
    /\ dbTimers = {}
    /\ burst.calls >= 1
    /\ burst.cycles = 0
    /\ lastUpdateRecent
    /\ activeFile # NoFile
    /\ view.state = "ready"

(***************************************************************************)
(* C19: a forced request in the debounce                                   *)
(***************************************************************************)

\* C19: a forced request leads to a cycle unless one is in flight when the
\* timer fires: the timer of a burst of calls one of which was forced starts
\* a cycle when it fires and no cycle is in flight
ForcedRequestRuns ==
    [][\A t \in dbTimers :
          (DebounceFire(t) /\ burst.forced /\ ~updateInProgress) =>
              burst'.cycles > burst.cycles]_vars

(***************************************************************************)
(* C20: the waits of a retry sequence                                      *)
(***************************************************************************)

\* 500 + n * 200 for the failed attempts n that are followed by a retry
RetryWaits ==
    {RetryBaseDelay + n * RetryStepDelay : n \in 1..(maxRetryCount - 1)}

\* C20: the wait before a retry is 500 + n * 200 ms for the number n of the
\* failed attempt (700, 900, 1100, 1300), and is longer than the 500 ms for
\* which readingViewUpdateInProgress stays set: every pending timer of
\* scheduleReadingViewUpdate is the 800 ms one of a handler or has such a wait
RetryWaitsGrow ==
    \A t \in BagToSet(timers) :
        (t.kind = "sched" /\ t.delay # ReadingClickDelay) =>
            (t.delay \in RetryWaits /\ t.delay > ReleaseDelay)

(***************************************************************************)
(* C21: the delay after a click on a checkbox                              *)
(***************************************************************************)

\* C21 as stated: the refresh of a click in the reading view waits less
\* than the forced refresh of a click outside it
ReadingClickWaitsLess ==
    \A s, f \in BagToSet(timers) :
        (s.kind = "sched" /\ f.kind = "forced") => s.delay < f.delay

\* C21: the forced refresh of a click outside the reading view is called
\* after 100 ms, and the refresh of a click in the reading view waits longer
\* (800 ms, a retry 500 ms or more)
ReadingClickWaitsLonger ==
    \A s, f \in BagToSet(timers) :
        (s.kind = "sched" /\ f.kind = "forced") => (f.delay = 100 /\ s.delay > f.delay)

\* the timers of a click outside the reading view and of one in it are
\* both pending
ReadingClickWaitsLongerSeen ==
    /\ \E f \in BagToSet(timers) : f.kind = "forced"
    /\ \E s \in BagToSet(timers) : s.kind = "sched" /\ s.delay = 800
    /\ mode = "reading"

(***************************************************************************)
(* C22: scrolling                                                          *)
(***************************************************************************)

\* C22: while isScrolling is true no reading-view cycle reads the file
\* (the read is issued when the 200 ms wait is over) and none renders
NoCycleWorkWhileScrolling ==
    [][\A i \in 1..Len(rvCycles) :
          (RVWaitDone(i) \/ (RVReadDone(i, TRUE) /\ RVSuccess(i, TRUE))) =>
              ~isScrolling]_vars

(***************************************************************************)
(* C23: the flags are released                                             *)
(***************************************************************************)

\* the end of a cycle of updateProgressBar leaves updateInProgress false
CycleEndClearsFlag ==
    \A i \in 1..Len(updCycles) :
        (UpdReadDone(i, TRUE) \/ UpdCachedDone(i, TRUE) \/ UpdCachedDone(i, FALSE)) =>
            ~updateInProgress'

\* the end of a reading-view cycle clears fileOperationInProgress and arms
\* the 500 ms timer that clears readingViewUpdateInProgress
RVCycleEndReleases ==
    \A i \in 1..Len(rvCycles) :
        (RVReadDone(i, TRUE) \/ RVReadDone(i, FALSE)) =>
            /\ ~fileOperationInProgress'
            /\ \E t \in BagToSet(timers') : t.kind = "release" /\ t.delay = 500

\* C23: every in-flight flag is released: updateInProgress is false after
\* every end of a cycle and whenever no cycle is in flight, a reading-view
\* cycle that ends clears fileOperationInProgress and arms the 500 ms release,
\* and each of the three flags, once set, is eventually false again
FlagsReleased ==
    /\ [][CycleEndClearsFlag /\ RVCycleEndReleases]_vars
    /\ [](updCycles = <<>> => ~updateInProgress)
    /\ (updateInProgress ~> ~updateInProgress)
    /\ (fileOperationInProgress ~> ~fileOperationInProgress)
    /\ (readingViewUpdateInProgress ~> ~readingViewUpdateInProgress)

\* a cycle of updateProgressBar has rendered, attempts of the reading view
\* were made, nothing is in flight and the three flags are false
FlagsReleasedSeen ==
    /\ rendered.total >= 0
    /\ attempts >= 2
    /\ updCycles = <<>>
    /\ rvCycles = <<>>
    /\ \A t \in BagToSet(timers) : t.kind # "release"
    /\ ~updateInProgress
    /\ ~fileOperationInProgress
    /\ ~readingViewUpdateInProgress

(***************************************************************************)
(* C24: the range of the retry count                                       *)
(***************************************************************************)

\* C24: readingViewUpdateRetryCount stays within 0..5, and a call of
\* scheduleReadingViewUpdate that finds it at 5 starts no attempt: it sets
\* the count to 0 and leaves the flags, the cycles and the view as they are
RetryCountInRange ==
    /\ [](readingViewUpdateRetryCount \in 0..5)
    /\ [][\A t \in BagToSet(timers) :
              (TimerSchedFire(t) /\ readingViewUpdateRetryCount >= 5) =>
                  /\ readingViewUpdateRetryCount' = 0
                  /\ UNCHANGED <<rvCycles, readingViewUpdateInProgress,
                                 fileOperationInProgress, view, attempts>>
                  /\ \A u \in BagToSet(timers') : CopiesIn(u, timers') <= CopiesIn(u, timers)]_vars

\* five attempts were made since the last toggle and a call that found the
\* count at 5 has set it to 0
RetryCountInRangeSeen ==
    /\ readingViewUpdateRetryCount = 0
    /\ attempts >= 5

(***************************************************************************)
(* C25: cycles of one path and the delayed release                         *)
(***************************************************************************)

\* the timers of the finally block that have not fired
PendingReleases ==
    LET ks == {t \in BagToSet(timers) : t.kind = "release"}
    IN BagCardinality([t \in ks |-> CopiesIn(t, timers)])

\* C25: cycles of one path never overlap, and the delayed clear of
\* readingViewUpdateInProgress never happens while a later reading-view cycle
\* is in flight: no release timer is pending while a cycle is in flight, at
\* most one is pending at any time, and one that fires finds no cycle
CyclesNeverOverlap ==
    /\ [](Len(updCycles) <= 1 /\ Len(rvCycles) <= 1)
    /\ [](PendingReleases <= 1)
    /\ [](rvCycles # <<>> => (PendingReleases = 0 /\ readingViewUpdateInProgress))
    /\ [][\A t \in BagToSet(timers) : TimerReleaseFire(t) => rvCycles = <<>>]_vars

\* a reading-view cycle is in flight after an earlier attempt, a cycle of
\* updateProgressBar is in flight as well, and a further timer of
\* scheduleReadingViewUpdate is pending
CyclesNeverOverlapSeen ==
    /\ Len(rvCycles) = 1
    /\ attempts >= 2
    /\ readingViewUpdateRetryCount >= 1
    /\ Len(updCycles) = 1
    /\ \E t \in BagToSet(timers) : t.kind = "sched"

====
